---------------------------- MODULE Spec2Model ----------------------------
(***************************************************************************)
(* Model of the task-management backend: the project/membership            *)
(* controller (projectController), the task controller (taskController),   *)
(* the Mongoose models they store (Project, Task, TaskLog) and the events  *)
(* and notifications the handlers send.                                    *)
(*                                                                         *)
(* The database is the variables projects, tasks and logs.  One action     *)
(* models one request handler, run from its first line to its response.    *)
(* resp, emitted, notified and logged hold what the most recent handler    *)
(* sent back: the HTTP response (with the request it answers), the socket  *)
(* events, the notifications and the TaskLog documents it created.         *)
(* reqs holds the handlers in flight of the interleaved specifications,     *)
(* rooms the project rooms that the socket of each user has joined.        *)
(***************************************************************************)
EXTENDS Integers, Sequences, FiniteSets, TLC

VARIABLES projects, tasks, logs, resp, emitted, notified, logged, reqs, rooms

vars == <<projects, tasks, logs, resp, emitted, notified, logged, reqs, rooms>>

-----------------------------------------------------------------------------
(* Values *)

\* A request field, route parameter or document path that is not there.
Undef == "undefined"

\* An optional value that is not a string: <<>> when absent, <<v>> when given.
NotGiven == <<>>
Given(v) == <<v>>

\* The registered users; req.user is one of them (authenticate).
Users == {"u1", "u2", "u3"}

\* User.role of each registered user.
UserRoleOf(u) == IF u = "u3" THEN "admin" ELSE "developer"

\* UserRole.ADMIN
ADMIN == "admin"

\* ProjectMemberRole
ROLE_OWNER == "owner"
ROLE_ADMIN == "admin"
ROLE_MEMBER == "member"

\* The role values a request may carry: none, the three of the enum, and a
\* string that is none of them (memberRoles is a Map of String: no enum).
RoleInputs == {Undef, ROLE_OWNER, ROLE_ADMIN, ROLE_MEMBER, "viewer"}

\* The _id values of projects.
ProjectIds == {"p1", "p2"}

\* The most tasks ever created (their _id values are 1..MaxTasks).
MaxTasks == 3
TaskIds == 1..MaxTasks

\* A task id that names no document (an undefined route parameter).
NoId == 0

Range(s) == {s[i] : i \in 1..Len(s)}

Min(a, b) == IF a < b THEN a ELSE b
Max(a, b) == IF a > b THEN a ELSE b

\* Array.prototype.findIndex / indexOf, 1-based; 0 when not found.
IndexOf(s, x) ==
    IF x \in Range(s) THEN CHOOSE i \in 1..Len(s) : s[i] = x /\ \A j \in 1..(i-1) : s[j] # x
    ELSE 0

\* arr.splice(i, 1) with a 1-based index.
RemoveAt(s, i) == [j \in 1..(Len(s)-1) |-> IF j < i THEN s[j] ELSE s[j+1]]

\* arr.splice(start, 0, x) with the 0-based start of JavaScript: a negative
\* start counts from the end, and a start beyond the end appends.
InsertAt(s, start, x) ==
    LET at == IF start < 0 THEN Max(Len(s) + start, 0) ELSE Min(start, Len(s))
    IN  [j \in 1..(Len(s)+1) |-> IF j <= at THEN s[j] ELSE IF j = at + 1 THEN x ELSE s[j-1]]

-----------------------------------------------------------------------------
(* Documents *)

\* A project _id with no document yet, and one whose document was deleted.
NoProject ==
    [state |-> "none", owner |-> Undef, members |-> <<>>,
     memberRoles |-> [u \in Users |-> Undef]]
DeletedProject == [NoProject EXCEPT !.state = "deleted"]

\* Project.findById(id) found a document.
ProjectFound(pid) == pid \in ProjectIds /\ projects[pid].state = "live"

\* The keys of the memberRoles Map.
RoleKeys(p) == {u \in Users : p.memberRoles[u] # Undef}

NoTask ==
    [state |-> "none", project |-> Undef, status |-> Undef, priority |-> Undef,
     assignedTo |-> Undef, createdBy |-> Undef, position |-> 0]
DeletedTask == [NoTask EXCEPT !.state = "deleted"]

\* Task.findById(id) found a document.
TaskFound(tid) == tid \in TaskIds /\ tasks[tid].state = "live"

\* Task.find({ project: pid })
ProjectTasks(pid) == {t \in TaskIds : tasks[t].state = "live" /\ tasks[t].project = pid}

-----------------------------------------------------------------------------
(* What a handler sends *)

NoResp ==
    [op |-> "none", actor |-> Undef, status |-> 0, pid |-> Undef, tid |-> NoId,
     user |-> Undef, role |-> Undef, members |-> NotGiven,
     newPosition |-> NotGiven, fields |-> <<>>, tasks |-> <<>>, logs |-> {},
     id |-> NoId]

\* A slip of the handlers: the event goes out before the check that refuses.
Reply_WithEvent(r) ==
    /\ resp' = r
    /\ emitted' = <<[type |-> "task:updated", room |-> r.pid, task |-> r.tid]>>
    /\ notified' = <<>>
    /\ logged' = <<>>

\* res.status(code).json(...) with nothing else sent.
Reply(r) ==
    /\ resp' = r
    /\ emitted' = <<>>
    /\ notified' = <<>>
    /\ logged' = <<>>

\* io.to(`project:${projectId}`).emit(type, payload)
Event(type, pid, tid) == [type |-> type, room |-> pid, task |-> tid]

\* createNotification({ userId, type, relatedProject, relatedTask })
Notification(user, type, pid, tid) ==
    [user |-> user, type |-> type, relatedProject |-> pid, relatedTask |-> tid]

-----------------------------------------------------------------------------
(* projectController *)

\* A slip of the owner test: every member passes for the owner.
IsProjectOwner_AnyMember(p, actor) == p.owner = actor \/ actor \in Range(p.members)

\* isProjectOwner
IsProjectOwner(p, actor) == p.owner = actor

\* project.members.includes(req.user._id) || project.owner === req.user._id
IsProjectMember(p, actor) == actor \in Range(p.members) \/ p.owner = actor

\* A slip of updateProject: the submitted list is stored as it came.
EnsureOwnerMember_Dropped(members, owner) == members

\* updateProject: the members stored for a submitted list.
EnsureOwnerMember(members, owner) ==
    IF owner \in Range(members) THEN members ELSE Append(members, owner)

\* createProject
CreateProject(actor, pid) ==
    LET r == [NoResp EXCEPT !.op = "createProject", !.actor = actor, !.pid = pid]
    IN  /\ projects[pid].state = "none"
        /\ projects' = [projects EXCEPT ![pid] =
              [state |-> "live", owner |-> actor, members |-> <<actor>>,
               memberRoles |-> [u \in Users |-> IF u = actor THEN ROLE_OWNER ELSE Undef]]]
        /\ Reply([r EXCEPT !.status = 201])
        /\ UNCHANGED <<tasks, logs, reqs, rooms>>

\* updateProject; members is NotGiven or Given(list)
UpdateProject(actor, pid, members) ==
    LET r == [NoResp EXCEPT !.op = "updateProject", !.actor = actor, !.pid = pid,
                            !.members = members]
        p == projects[pid]
    IN  IF ~ProjectFound(pid)
        THEN Reply([r EXCEPT !.status = 404]) /\ UNCHANGED <<projects, tasks, logs, reqs, rooms>>
        ELSE IF UserRoleOf(actor) # ADMIN /\ ~IsProjectOwner(p, actor)
        THEN Reply([r EXCEPT !.status = 403]) /\ UNCHANGED <<projects, tasks, logs, reqs, rooms>>
        ELSE /\ projects' = [projects EXCEPT ![pid].members =
                   IF members # NotGiven THEN EnsureOwnerMember(members[1], p.owner)
                   ELSE p.members]
             /\ resp' = [r EXCEPT !.status = 200]
             /\ emitted' = <<Event("project:updated", pid, NoId)>>
             /\ notified' = <<>>
             /\ logged' = <<>>
             /\ UNCHANGED <<tasks, logs, reqs, rooms>>

\* deleteProject
DeleteProject(actor, pid) ==
    LET r == [NoResp EXCEPT !.op = "deleteProject", !.actor = actor, !.pid = pid]
        p == projects[pid]
    IN  IF ~ProjectFound(pid)
        THEN Reply([r EXCEPT !.status = 404]) /\ UNCHANGED <<projects, tasks, logs, reqs, rooms>>
        ELSE IF UserRoleOf(actor) # ADMIN /\ ~IsProjectOwner(p, actor)
        THEN Reply([r EXCEPT !.status = 403]) /\ UNCHANGED <<projects, tasks, logs, reqs, rooms>>
        ELSE /\ projects' = [projects EXCEPT ![pid] = DeletedProject]
             /\ resp' = [r EXCEPT !.status = 200]
             /\ emitted' = <<Event("project:deleted", pid, NoId)>>
             /\ notified' = <<>>
             /\ logged' = <<>>
             /\ UNCHANGED <<tasks, logs, reqs, rooms>>

\* addProjectMember: const memberRole = role || ProjectMemberRole.MEMBER
MemberRole(role) == IF role = Undef THEN ROLE_MEMBER ELSE role

\* A slip of addProjectMember: a project admin passes for every role.
AddMemberDenied_AdminAssigns(p, actor, memberRole) ==
    /\ memberRole \in {ROLE_ADMIN, ROLE_OWNER, ROLE_MEMBER}
    /\ ~IsProjectOwner(p, actor)
    /\ UserRoleOf(actor) # ADMIN
    /\ p.memberRoles[actor] # ROLE_ADMIN

\* addProjectMember: the check of who may assign memberRole; TRUE when the
\* handler answers 403.
AddMemberDenied(p, actor, memberRole) ==
    IF memberRole = ROLE_ADMIN \/ memberRole = ROLE_OWNER
    THEN ~IsProjectOwner(p, actor) /\ UserRoleOf(actor) # ADMIN
    ELSE IF memberRole = ROLE_MEMBER
    THEN /\ ~IsProjectOwner(p, actor)
         /\ UserRoleOf(actor) # ADMIN
         /\ p.memberRoles[actor] # ROLE_ADMIN
    ELSE FALSE

\* addProjectMember
AddProjectMember(actor, pid, userId, role) ==
    LET r == [NoResp EXCEPT !.op = "addProjectMember", !.actor = actor, !.pid = pid,
                            !.user = userId, !.role = role]
        p == projects[pid]
        memberRole == MemberRole(role)
        isMember == userId \in Range(p.members)
        sent(q) ==
            /\ projects' = [projects EXCEPT ![pid] = q]
            /\ resp' = [r EXCEPT !.status = 200]
            /\ emitted' = <<Event("project:updated", pid, NoId)>>
            /\ notified' = <<Notification(userId, "project_invitation", pid, NoId)>>
            /\ logged' = <<>>
            /\ UNCHANGED <<tasks, logs, reqs, rooms>>
    IN  IF ~ProjectFound(pid)
        THEN Reply([r EXCEPT !.status = 404]) /\ UNCHANGED <<projects, tasks, logs, reqs, rooms>>
        ELSE IF AddMemberDenied(p, actor, memberRole)
        THEN Reply([r EXCEPT !.status = 403]) /\ UNCHANGED <<projects, tasks, logs, reqs, rooms>>
        ELSE IF isMember
        THEN IF p.memberRoles[userId] # memberRole
             THEN sent([p EXCEPT !.memberRoles[userId] = memberRole])
             ELSE Reply([r EXCEPT !.status = 400])
                  /\ UNCHANGED <<projects, tasks, logs, reqs, rooms>>
        ELSE sent([p EXCEPT !.members = Append(p.members, userId),
                            !.memberRoles[userId] = memberRole])

\* removeProjectMember
RemoveProjectMember(actor, pid, memberId) ==
    LET r == [NoResp EXCEPT !.op = "removeProjectMember", !.actor = actor, !.pid = pid,
                            !.user = memberId]
        p == projects[pid]
        memberIndex == IndexOf(p.members, memberId)
    IN  IF ~ProjectFound(pid)
        THEN Reply([r EXCEPT !.status = 404]) /\ UNCHANGED <<projects, tasks, logs, reqs, rooms>>
        ELSE IF UserRoleOf(actor) # ADMIN /\ ~IsProjectOwner(p, actor)
        THEN Reply([r EXCEPT !.status = 403]) /\ UNCHANGED <<projects, tasks, logs, reqs, rooms>>
        ELSE IF p.owner = memberId
        THEN Reply([r EXCEPT !.status = 400]) /\ UNCHANGED <<projects, tasks, logs, reqs, rooms>>
        ELSE IF memberIndex = 0
        THEN Reply([r EXCEPT !.status = 404]) /\ UNCHANGED <<projects, tasks, logs, reqs, rooms>>
        ELSE /\ projects' = [projects EXCEPT ![pid].members = RemoveAt(p.members, memberIndex)]
             /\ resp' = [r EXCEPT !.status = 200]
             /\ emitted' = <<Event("project:updated", pid, NoId)>>
             /\ notified' = <<>>
             /\ logged' = <<>>
             /\ UNCHANGED <<tasks, logs, reqs, rooms>>

-----------------------------------------------------------------------------
(* taskController *)

\* TaskStatus, TaskPriority
Statuses == {"pending", "in-progress", "completed"}
Priorities == {"low", "medium", "high"}

\* A TaskLog document.  The message text is kept as its kind alone.
LogEntry(tid, actor, message) ==
    [task |-> tid, user |-> actor, message |-> message,
     previousStatus |-> Undef, newStatus |-> Undef,
     previousPriority |-> Undef, newPriority |-> Undef,
     previousAssignee |-> Undef, newAssignee |-> Undef]

\* createTask: status = TaskStatus.PENDING, priority = TaskPriority.MEDIUM
DefaultStatus(status) == IF status = Undef THEN "pending" ELSE status
DefaultPriority(priority) == IF priority = Undef THEN "medium" ELSE priority

\* A slip of createTask: the assignee is stored as it was submitted.
DefaultAssignee_AsSubmitted(assignedTo, actor) == assignedTo

\* createTask: assignedTo || req.user._id
DefaultAssignee(assignedTo, actor) == IF assignedTo = Undef THEN actor ELSE assignedTo

\* taskSchema.position: { type: Number, default: 0 }; createTask passes none.
CreatedPosition(pid) == 0

\* taskSchema: title is required, status and priority are of their enums.
\* Task.create rejects a document that is not valid.
ValidTask(title, status, priority) ==
    title # Undef /\ status \in Statuses /\ priority \in Priorities

\* createTask; tid is the _id of the new document
CreateTaskTitled(actor, pid, tid, title, status, priority, assignedTo) ==
    LET r == [NoResp EXCEPT !.op = "createTask", !.actor = actor, !.pid = pid,
                            !.fields = <<status, priority, assignedTo, title>>]
        p == projects[pid]
        st == DefaultStatus(status)
        pr == DefaultPriority(priority)
        as == DefaultAssignee(assignedTo, actor)
    IN  IF ~ProjectFound(pid)
        THEN Reply([r EXCEPT !.status = 404]) /\ UNCHANGED <<projects, tasks, logs, reqs, rooms>>
        ELSE IF ~IsProjectMember(p, actor) /\ UserRoleOf(actor) # ADMIN
        THEN Reply([r EXCEPT !.status = 403]) /\ UNCHANGED <<projects, tasks, logs, reqs, rooms>>
        ELSE IF ~ValidTask(title, st, pr)
        THEN Reply([r EXCEPT !.status = 500]) /\ UNCHANGED <<projects, tasks, logs, reqs, rooms>>
        ELSE /\ tasks[tid].state = "none"
             /\ tasks' = [tasks EXCEPT ![tid] =
                   [state |-> "live", project |-> pid, status |-> st, priority |-> pr,
                    assignedTo |-> as, createdBy |-> actor,
                    position |-> CreatedPosition(pid)]]
             /\ LET entry == [LogEntry(tid, actor, "Task created") EXCEPT
                                 !.newStatus = st, !.newPriority = pr, !.newAssignee = as]
                IN  logs' = logs \cup {entry} /\ logged' = <<entry>>
             /\ emitted' = <<Event("task:created", pid, tid)>>
             /\ notified' = IF assignedTo # Undef /\ assignedTo # actor
                            THEN <<Notification(assignedTo, "task_assignment", pid, tid)>>
                            ELSE <<>>
             /\ resp' = [r EXCEPT !.status = 201, !.tid = tid]
             /\ UNCHANGED <<projects, reqs, rooms>>

\* createTask with a title in the body
CreateTask(actor, pid, tid, status, priority, assignedTo) ==
    CreateTaskTitled(actor, pid, tid, "title", status, priority, assignedTo)

\* updateTask: logData, from the submitted fields and the task as loaded
UpdateLogData(t, tid, actor, status, priority, assignedTo) ==
    LET l0 == LogEntry(tid, actor, "Task updated")
        l1 == IF status # Undef /\ status # t.status
              THEN [l0 EXCEPT !.previousStatus = t.status, !.newStatus = status] ELSE l0
        l2 == IF priority # Undef /\ priority # t.priority
              THEN [l1 EXCEPT !.previousPriority = t.priority, !.newPriority = priority]
              ELSE l1
    IN  IF assignedTo # Undef /\ assignedTo # t.assignedTo
        THEN [l2 EXCEPT !.previousAssignee = t.assignedTo, !.newAssignee = assignedTo]
        ELSE l2

\* updateTask: if (status || priority || assignedTo) TaskLog.create(logData)
UpdateLogs(t, tid, actor, status, priority, assignedTo) ==
    IF status # Undef \/ priority # Undef \/ assignedTo # Undef
    THEN <<UpdateLogData(t, tid, actor, status, priority, assignedTo)>>
    ELSE <<>>

\* A slip of updateTask: the notification goes to the previous assignee.
AssignmentNotices_ToPrevious(t, tid, actor, assignedTo) ==
    IF assignedTo # Undef /\ assignedTo # t.assignedTo /\ assignedTo # actor
    THEN <<Notification(t.assignedTo, "task_assignment", t.project, tid)>>
    ELSE <<>>

\* updateTask: if (assigneeChanged && assignedTo !== req.user._id.toString())
\* createNotification({ userId: assignedTo, type: 'task_assignment', ... })
AssignmentNotices(t, tid, actor, assignedTo) ==
    IF assignedTo # Undef /\ assignedTo # t.assignedTo /\ assignedTo # actor
    THEN <<Notification(assignedTo, "task_assignment", t.project, tid)>>
    ELSE <<>>

\* updateTask
UpdateTask(actor, tid, status, priority, assignedTo) ==
    LET r == [NoResp EXCEPT !.op = "updateTask", !.actor = actor, !.tid = tid,
                            !.fields = <<status, priority, assignedTo>>]
        t == tasks[tid]
        p == projects[t.project]
        written == UpdateLogs(t, tid, actor, status, priority, assignedTo)
    IN  IF ~TaskFound(tid)
        THEN Reply([r EXCEPT !.status = 404]) /\ UNCHANGED <<projects, tasks, logs, reqs, rooms>>
        ELSE IF ~ProjectFound(t.project)
        THEN Reply([r EXCEPT !.status = 404, !.pid = t.project])
             /\ UNCHANGED <<projects, tasks, logs, reqs, rooms>>
        ELSE IF ~IsProjectMember(p, actor) /\ UserRoleOf(actor) # ADMIN
        THEN Reply([r EXCEPT !.status = 403, !.pid = t.project])
             /\ UNCHANGED <<projects, tasks, logs, reqs, rooms>>
        ELSE /\ tasks' = [tasks EXCEPT ![tid] =
                   [t EXCEPT !.status = IF status # Undef THEN status ELSE t.status,
                             !.priority = IF priority # Undef THEN priority ELSE t.priority,
                             !.assignedTo = IF assignedTo # Undef THEN assignedTo
                                            ELSE t.assignedTo]]
             /\ logs' = logs \cup Range(written)
             /\ logged' = written
             /\ emitted' = <<Event("task:updated", t.project, tid)>>
             /\ notified' = AssignmentNotices(t, tid, actor, assignedTo)
             /\ resp' = [r EXCEPT !.status = 200, !.pid = t.project]
             /\ UNCHANGED <<projects, reqs, rooms>>

\* A slip of deleteTask: deleteMany without its filter empties the log.
RemainingLogs_None(tid) == {}

\* A slip of deleteTask: the entries of the task are left in the log.
RemainingLogs_Kept(tid) == logs

\* deleteTask: TaskLog.deleteMany({ task: task._id })
RemainingLogs(tid) == {l \in logs : l.task # tid}

\* deleteTask
DeleteTask(actor, tid) ==
    LET r == [NoResp EXCEPT !.op = "deleteTask", !.actor = actor, !.tid = tid]
        t == tasks[tid]
        p == projects[t.project]
    IN  IF ~TaskFound(tid)
        THEN Reply([r EXCEPT !.status = 404]) /\ UNCHANGED <<projects, tasks, logs, reqs, rooms>>
        ELSE IF ~ProjectFound(t.project)
        THEN Reply([r EXCEPT !.status = 404, !.pid = t.project])
             /\ UNCHANGED <<projects, tasks, logs, reqs, rooms>>
        ELSE IF ~IsProjectOwner(p, actor) /\ t.createdBy # actor /\ UserRoleOf(actor) # ADMIN
        THEN Reply([r EXCEPT !.status = 403, !.pid = t.project])
             /\ UNCHANGED <<projects, tasks, logs, reqs, rooms>>
        ELSE /\ tasks' = [tasks EXCEPT ![tid] = DeletedTask]
             /\ logs' = RemainingLogs(tid)
             /\ logged' = <<>>
             /\ emitted' = <<Event("task:deleted", t.project, tid)>>
             /\ notified' = <<>>
             /\ resp' = [r EXCEPT !.status = 200, !.pid = t.project]
             /\ UNCHANGED <<projects, reqs, rooms>>

\* updateTaskStatus
UpdateTaskStatus(actor, tid, status) ==
    LET r == [NoResp EXCEPT !.op = "updateTaskStatus", !.actor = actor, !.tid = tid,
                            !.fields = <<status, Undef, Undef>>]
        t == tasks[tid]
        p == projects[t.project]
        entry == [LogEntry(tid, actor, "Status changed") EXCEPT
                     !.previousStatus = t.status, !.newStatus = status]
    IN  IF status \notin Statuses
        THEN Reply([r EXCEPT !.status = 400]) /\ UNCHANGED <<projects, tasks, logs, reqs, rooms>>
        ELSE IF ~TaskFound(tid)
        THEN Reply([r EXCEPT !.status = 404]) /\ UNCHANGED <<projects, tasks, logs, reqs, rooms>>
        ELSE IF ~ProjectFound(t.project)
        THEN Reply([r EXCEPT !.status = 404, !.pid = t.project])
             /\ UNCHANGED <<projects, tasks, logs, reqs, rooms>>
        ELSE IF ~IsProjectMember(p, actor) /\ UserRoleOf(actor) # ADMIN
        THEN Reply([r EXCEPT !.status = 403, !.pid = t.project])
             /\ UNCHANGED <<projects, tasks, logs, reqs, rooms>>
        ELSE /\ tasks' = [tasks EXCEPT ![tid].status = status]
             /\ logs' = logs \cup {entry}
             /\ logged' = <<entry>>
             /\ emitted' = <<Event("task:updated", t.project, tid)>>
             /\ notified' = IF t.assignedTo # actor
                            THEN <<Notification(t.assignedTo, "task_update", t.project, tid)>>
                            ELSE <<>>
             /\ resp' = [r EXCEPT !.status = 200, !.pid = t.project]
             /\ UNCHANGED <<projects, reqs, rooms>>

\* getTaskLogs: TaskLog.find({ task: task._id }).  The entries come newest
\* first; the model keeps which entries come.
TaskLogsOf(tid) == {l \in logs : l.task = tid}

\* getTaskLogs
GetTaskLogs(actor, tid) ==
    LET r == [NoResp EXCEPT !.op = "getTaskLogs", !.actor = actor, !.tid = tid]
        t == tasks[tid]
        p == projects[t.project]
    IN  /\ UNCHANGED <<projects, tasks, logs, reqs, rooms>>
        /\ IF ~TaskFound(tid) THEN Reply([r EXCEPT !.status = 404])
           ELSE IF ~ProjectFound(t.project)
           THEN Reply([r EXCEPT !.status = 404, !.pid = t.project])
           ELSE IF ~IsProjectMember(p, actor) /\ UserRoleOf(actor) # ADMIN
           THEN Reply([r EXCEPT !.status = 403, !.pid = t.project])
           ELSE Reply([r EXCEPT !.status = 200, !.pid = t.project,
                                !.logs = TaskLogsOf(tid)])

\* getAllTaskLogs: the projects the user owns or is a member of, their tasks,
\* the log entries of these tasks.
AccessibleLogs(actor) ==
    LET projectIds == {pid \in ProjectIds :
                          /\ ProjectFound(pid)
                          /\ \/ projects[pid].owner = actor
                             \/ actor \in Range(projects[pid].members)}
        taskIds == {t \in TaskIds : tasks[t].state = "live" /\ tasks[t].project \in projectIds}
    IN  {l \in logs : l.task \in taskIds}

\* getAllTaskLogs
GetAllTaskLogs(actor) ==
    /\ Reply([NoResp EXCEPT !.op = "getAllTaskLogs", !.actor = actor, !.status = 200,
                            !.logs = AccessibleLogs(actor)])
    /\ UNCHANGED <<projects, tasks, logs, reqs, rooms>>

\* reorderTask: Task.find({ project }).sort({ position: 1 }).  Documents with
\* equal position come in an order the sort does not fix: every order is one
\* the query may return.
LoadOrders(pid) ==
    LET S == ProjectTasks(pid)
        n == Cardinality(S)
    IN  {o \in [1..n -> S] :
            /\ \A i, j \in 1..n : i # j => o[i] # o[j]
            /\ \A i, j \in 1..n : i < j => tasks[o[i]].position <= tasks[o[j]].position}

\* A slip of reorderTask: the requested position is used as it came.
SafeNewPosition_Unclamped(newPosition, n) == newPosition

\* reorderTask: Math.max(0, Math.min(newPosition, projectTasks.length - 1))
SafeNewPosition(newPosition, n) == Max(0, Min(newPosition, n - 1))

\* reorderTask: the two splice calls on the loaded array (0-based positions,
\* 1-based sequence indices)
Reordered(order, taskId, newPosition) ==
    LET currentPosition == IndexOf(order, taskId) - 1
        safeNewPosition == SafeNewPosition(newPosition, Len(order))
    IN  InsertAt(RemoveAt(order, currentPosition + 1), safeNewPosition, taskId)

\* reorderTask: t.position = index for every task of the array
NewPosition(order, t) == IndexOf(order, t) - 1

\* reorderTask.  Every task document has a position (the schema default), so
\* the branch that initialises missing positions assigns nothing.
ReorderTaskFrom(request, actor, projectId, taskId, newPosition) ==
    LET r == [request EXCEPT !.op = "reorderTask", !.actor = actor, !.pid = projectId,
                            !.tid = taskId, !.newPosition = newPosition]
        t == tasks[taskId]
        p == projects[projectId]
        entry == LogEntry(taskId, actor, "Task reordered")
    IN  IF newPosition = NotGiven
        THEN Reply([r EXCEPT !.status = 400]) /\ UNCHANGED <<projects, tasks, logs, reqs, rooms>>
        ELSE IF ~TaskFound(taskId)
        THEN Reply([r EXCEPT !.status = 404]) /\ UNCHANGED <<projects, tasks, logs, reqs, rooms>>
        ELSE IF t.project # projectId
        THEN Reply([r EXCEPT !.status = 400]) /\ UNCHANGED <<projects, tasks, logs, reqs, rooms>>
        ELSE IF ~ProjectFound(projectId)
        THEN Reply([r EXCEPT !.status = 404]) /\ UNCHANGED <<projects, tasks, logs, reqs, rooms>>
        ELSE IF ~IsProjectMember(p, actor) /\ UserRoleOf(actor) # ADMIN
        THEN Reply([r EXCEPT !.status = 403]) /\ UNCHANGED <<projects, tasks, logs, reqs, rooms>>
        ELSE \E projectTasks \in LoadOrders(projectId) :
                LET order == Reordered(projectTasks, taskId, newPosition[1])
                IN  /\ tasks' = [x \in TaskIds |->
                          IF x \in Range(order)
                          THEN [tasks[x] EXCEPT !.position = NewPosition(order, x)]
                          ELSE tasks[x]]
                    /\ logs' = logs \cup {entry}
                    /\ logged' = <<entry>>
                    /\ emitted' = <<Event("tasksReordered", projectId, NoId)>>
                    /\ notified' = <<>>
                    /\ resp' = [r EXCEPT !.status = 200, !.tasks = order]
                    /\ UNCHANGED <<projects, reqs, rooms>>

\* reorderTask called with projectId and taskId among its route parameters
ReorderTask(actor, projectId, taskId, newPosition) ==
    ReorderTaskFrom(NoResp, actor, projectId, taskId, newPosition)

\* router.put('/tasks/:id/order', reorderTask): the route binds id alone, so
\* the projectId and taskId that reorderTask reads from req.params are
\* undefined.
PutTaskOrder(actor, id, newPosition) ==
    ReorderTaskFrom([NoResp EXCEPT !.id = id], actor, Undef, NoId, newPosition)

-----------------------------------------------------------------------------
(* reorderTask, await by await.  Node runs a handler up to its next await   *)
(* and may run any other handler before it resumes; the saves that          *)
(* Promise.all waits for reach the database one at a time, in any order.    *)

\* The requests that can be in flight together.
Slots == {"r1", "r2"}

IdleReq ==
    [pc |-> "idle", actor |-> Undef, pid |-> Undef, tid |-> NoId, target |-> 0,
     order |-> <<>>, pending |-> {}, failed |-> FALSE, status |-> 0]

\* The response of the request in slot s.
ReorderResp(s) ==
    [NoResp EXCEPT !.op = "reorderTask", !.actor = reqs[s].actor, !.pid = reqs[s].pid,
                   !.tid = reqs[s].tid, !.newPosition = Given(reqs[s].target)]

\* The request in slot s ends with this status and nothing else sent.
ReorderEnds(s, q, status) ==
    /\ reqs' = [reqs EXCEPT ![s] = [q EXCEPT !.pc = "done", !.status = status]]
    /\ resp' = [NoResp EXCEPT !.op = "reorderTask", !.actor = q.actor, !.pid = q.pid,
                              !.tid = q.tid, !.newPosition = Given(q.target),
                              !.status = status]
    /\ emitted' = <<>>
    /\ notified' = <<>>
    /\ logged' = <<>>

\* reorderTask up to the load: the task, its project and the caller's right.
\* newPosition is a number, so the 400 of the first check is not sent.
ReorderStart(s, actor, projectId, taskId, newPosition) ==
    LET q == [IdleReq EXCEPT !.actor = actor, !.pid = projectId, !.tid = taskId,
                             !.target = newPosition]
        t == tasks[taskId]
        p == projects[projectId]
    IN  /\ reqs[s].pc = "idle"
        /\ UNCHANGED <<projects, tasks, logs, rooms>>
        /\ IF ~TaskFound(taskId) THEN ReorderEnds(s, q, 404)
           ELSE IF t.project # projectId THEN ReorderEnds(s, q, 400)
           ELSE IF ~ProjectFound(projectId) THEN ReorderEnds(s, q, 404)
           ELSE IF ~IsProjectMember(p, actor) /\ UserRoleOf(actor) # ADMIN
           THEN ReorderEnds(s, q, 403)
           ELSE /\ reqs' = [reqs EXCEPT ![s] = [q EXCEPT !.pc = "checked"]]
                /\ UNCHANGED <<resp, emitted, notified, logged>>

\* The saves that write: save() sends the paths that were modified, and a
\* position set to the value that was loaded is not modified.
Modified(order) == {t \in Range(order) : NewPosition(order, t) # tasks[t].position}

\* reorderTask from Task.find to the saves being issued.
ReorderLoad(s) ==
    LET q == reqs[s]
    IN  /\ q.pc = "checked"
        /\ UNCHANGED <<projects, tasks, logs, rooms>>
        /\ \E projectTasks \in LoadOrders(q.pid) :
              IF IndexOf(projectTasks, q.tid) = 0
              THEN ReorderEnds(s, q, 404)
              ELSE LET order == Reordered(projectTasks, q.tid, q.target)
                   IN  /\ reqs' = [reqs EXCEPT ![s] =
                             [q EXCEPT !.pc = "writing", !.order = order,
                                       !.pending = Modified(order)]]
                       /\ UNCHANGED <<resp, emitted, notified, logged>>

\* One save of Promise.all reaches the database.  The save of a document
\* that has been deleted meanwhile updates nothing and rejects.
ReorderWrite(s, t) ==
    LET q == reqs[s]
    IN  /\ q.pc = "writing"
        /\ t \in q.pending
        /\ IF tasks[t].state = "live"
           THEN /\ tasks' = [tasks EXCEPT ![t].position = NewPosition(q.order, t)]
                /\ reqs' = [reqs EXCEPT ![s].pending = q.pending \ {t}]
           ELSE /\ tasks' = tasks
                /\ reqs' = [reqs EXCEPT ![s].pending = q.pending \ {t}, ![s].failed = TRUE]
        /\ UNCHANGED <<projects, logs, resp, emitted, notified, logged, rooms>>

\* reorderTask after Promise.all: the log entry, the event and the response,
\* or the catch block when a save rejected.
ReorderFinish(s) ==
    LET q == reqs[s]
        entry == LogEntry(q.tid, q.actor, "Task reordered")
    IN  /\ q.pc = "writing"
        /\ q.pending = {}
        /\ UNCHANGED <<projects, tasks, rooms>>
        /\ IF q.failed
           THEN ReorderEnds(s, q, 500) /\ logs' = logs
           ELSE /\ reqs' = [reqs EXCEPT ![s] = [q EXCEPT !.pc = "done", !.status = 200]]
                /\ logs' = logs \cup {entry}
                /\ logged' = <<entry>>
                /\ emitted' = <<Event("tasksReordered", q.pid, NoId)>>
                /\ notified' = <<>>
                /\ resp' = [ReorderResp(s) EXCEPT !.status = 200, !.tasks = q.order]

-----------------------------------------------------------------------------
(* addProjectMember, await by await: the handler decides on the project     *)
(* document it has loaded, and project.save() sends what it changed in its  *)
(* copy, a $push of the new member and a $set of the role, to the document  *)
(* as it is in the database by then.                                        *)

IdleAdd ==
    [pc |-> "idle", actor |-> Undef, pid |-> Undef, user |-> Undef, role |-> Undef,
     write |-> "none", status |-> 0]

\* The request in slot s ends with this status and nothing else sent.
AddMemberEnds(s, q, status) ==
    /\ reqs' = [reqs EXCEPT ![s] = [q EXCEPT !.pc = "done", !.status = status]]
    /\ Reply([NoResp EXCEPT !.op = "addProjectMember", !.actor = q.actor, !.pid = q.pid,
                            !.user = q.user, !.role = q.role, !.status = status])

\* addProjectMember from Project.findById to the changes made to the copy.
AddMemberLoad(s, actor, pid, userId, role) ==
    LET q == [IdleAdd EXCEPT !.actor = actor, !.pid = pid, !.user = userId, !.role = role]
        p == projects[pid]
        memberRole == MemberRole(role)
    IN  /\ reqs[s].pc = "idle"
        /\ UNCHANGED <<projects, tasks, logs, rooms>>
        /\ IF ~ProjectFound(pid) THEN AddMemberEnds(s, q, 404)
           ELSE IF AddMemberDenied(p, actor, memberRole) THEN AddMemberEnds(s, q, 403)
           ELSE IF userId \in Range(p.members) /\ p.memberRoles[userId] = memberRole
           THEN AddMemberEnds(s, q, 400)
           ELSE /\ reqs' = [reqs EXCEPT ![s] =
                      [q EXCEPT !.pc = "saving",
                                !.write = IF userId \in Range(p.members)
                                          THEN "role" ELSE "push"]]
                /\ UNCHANGED <<resp, emitted, notified, logged>>

\* addProjectMember from project.save() to the response.  The save of a
\* project that has been deleted meanwhile updates nothing and rejects.
AddMemberSave(s) ==
    LET q == reqs[s]
        p == projects[q.pid]
        memberRole == MemberRole(q.role)
    IN  /\ q.pc = "saving"
        /\ UNCHANGED <<tasks, logs, rooms>>
        /\ IF ~ProjectFound(q.pid)
           THEN AddMemberEnds(s, q, 500) /\ projects' = projects
           ELSE /\ projects' = [projects EXCEPT ![q.pid] =
                      IF q.write = "push"
                      THEN [p EXCEPT !.members = Append(p.members, q.user),
                                     !.memberRoles[q.user] = memberRole]
                      ELSE [p EXCEPT !.memberRoles[q.user] = memberRole]]
                /\ reqs' = [reqs EXCEPT ![s] = [q EXCEPT !.pc = "done", !.status = 200]]
                /\ resp' = [NoResp EXCEPT !.op = "addProjectMember", !.actor = q.actor,
                                          !.pid = q.pid, !.user = q.user, !.role = q.role,
                                          !.status = 200]
                /\ emitted' = <<Event("project:updated", q.pid, NoId)>>
                /\ notified' = <<Notification(q.user, "project_invitation", q.pid, NoId)>>
                /\ logged' = <<>>

-----------------------------------------------------------------------------
(* The socket server: io.on('connection').  Each user has one socket.       *)

\* What a socket handler leaves: no HTTP response but its own trace.
SocketDid(op, user, pid) ==
    /\ Reply([NoResp EXCEPT !.op = op, !.actor = user, !.pid = pid])
    /\ UNCHANGED <<projects, tasks, logs, reqs>>

\* socket.on('join-project'): socket.join(`project:${projectId}`)
JoinProject(user, pid) ==
    /\ rooms' = [rooms EXCEPT ![user] = @ \cup {pid}]
    /\ SocketDid("join-project", user, pid)

\* socket.on('leave-project'): socket.leave(`project:${projectId}`)
LeaveProject(user, pid) ==
    /\ rooms' = [rooms EXCEPT ![user] = @ \ {pid}]
    /\ SocketDid("leave-project", user, pid)

\* io.to(room).emit: the events of the last handler that the socket of this
\* user receives.
Delivered(user) == {i \in 1..Len(emitted) : emitted[i].room \in rooms[user]}

-----------------------------------------------------------------------------
(* The task handlers and addProjectMember, await by await.  A handler runs  *)
(* alone from one await to the next; at an await the handlers in flight     *)
(* take turns.  A write either lands or rejects, and a write that rejects   *)
(* leaves the database as it was.  In this specification logged holds the   *)
(* entries of the log in the order of their writes.                         *)

IdleCmd ==
    [pc |-> "idle", op |-> "none", actor |-> Undef, pid |-> Undef, tid |-> NoId,
     fields |-> <<Undef, Undef, Undef>>, user |-> Undef, target |-> 0,
     was |-> NoTask, order |-> <<>>, pending |-> {}, write |-> "none",
     saved |-> FALSE, audited |-> FALSE, published |-> FALSE,
     note |-> <<>>, notice |-> "none", status |-> 0]

\* A request: the handler, the caller, the route parameters and the body.
Command(op, actor, pid, tid, fields, user, target) ==
    [IdleCmd EXCEPT !.op = op, !.actor = actor, !.pid = pid, !.tid = tid,
                    !.fields = fields, !.user = user, !.target = target]

\* res.status(201) of createTask, res.json of the others
SuccessCode(op) == IF op = "createTask" THEN 201 ELSE 200

\* The response of the request q.
CmdResp(q, status) ==
    [NoResp EXCEPT !.op = q.op, !.actor = q.actor, !.pid = q.pid, !.tid = q.tid,
                   !.fields = q.fields, !.user = q.user, !.status = status]

\* The handler goes on to its next await and sends these events meanwhile.
CmdGoes(s, q, events) ==
    /\ reqs' = [reqs EXCEPT ![s] = q]
    /\ emitted' = events
    /\ notified' = <<>>
    /\ resp' = resp

\* The handler sends these events and then its response.
CmdEnds(s, q, events, status) ==
    /\ reqs' = [reqs EXCEPT ![s] = [q EXCEPT !.pc = "done", !.status = status]]
    /\ emitted' = events
    /\ notified' = <<>>
    /\ resp' = CmdResp(q, status)

\* The status of the response that the checks of a handler send, 0 when
\* they all pass.
CmdRefused(q) ==
    LET t == tasks[q.tid]
        member(pid) == IsProjectMember(projects[pid], q.actor) \/ UserRoleOf(q.actor) = ADMIN
    IN  CASE q.op = "createTask" ->
                IF ~ProjectFound(q.pid) THEN 404
                ELSE IF ~member(q.pid) THEN 403 ELSE 0
          [] q.op = "addProjectMember" ->
                IF ~ProjectFound(q.pid) THEN 404
                ELSE IF AddMemberDenied(projects[q.pid], q.actor, MemberRole(Undef)) THEN 403
                ELSE IF /\ q.user \in Range(projects[q.pid].members)
                        /\ projects[q.pid].memberRoles[q.user] = MemberRole(Undef)
                THEN 400 ELSE 0
          [] q.op = "reorderTask" ->
                IF ~TaskFound(q.tid) THEN 404
                ELSE IF t.project # q.pid THEN 400
                ELSE IF ~ProjectFound(q.pid) THEN 404
                ELSE IF ~member(q.pid) THEN 403 ELSE 0
          [] q.op = "deleteTask" ->
                IF ~TaskFound(q.tid) \/ ~ProjectFound(t.project) THEN 404
                ELSE IF /\ ~IsProjectOwner(projects[t.project], q.actor)
                        /\ t.createdBy # q.actor /\ UserRoleOf(q.actor) # ADMIN
                THEN 403 ELSE 0
          [] OTHER ->
                IF ~TaskFound(q.tid) \/ ~ProjectFound(t.project) THEN 404
                ELSE IF ~member(t.project) THEN 403 ELSE 0

\* A handler from its start to its first write: it loads what it works on
\* and makes its checks.
CmdStart(s, c) ==
    LET t == tasks[c.tid]
    IN  /\ reqs[s].pc = "idle"
        /\ UNCHANGED <<projects, tasks, logs, logged, rooms>>
        /\ IF CmdRefused(c) # 0 THEN CmdEnds(s, c, <<>>, CmdRefused(c))
           ELSE CASE c.op = "reorderTask" ->
                       \E projectTasks \in LoadOrders(c.pid) :
                          LET order == Reordered(projectTasks, c.tid, c.target)
                          IN  CmdGoes(s, [c EXCEPT !.pc = "saving", !.was = t, !.order = order,
                                                   !.pending = Modified(order)], <<>>)
                  [] c.op = "addProjectMember" ->
                       CmdGoes(s, [c EXCEPT !.pc = "saving",
                                            !.write = IF c.user \in Range(projects[c.pid].members)
                                                      THEN "role" ELSE "push"], <<>>)
                  [] c.op = "createTask" -> CmdGoes(s, [c EXCEPT !.pc = "saving"], <<>>)
                  [] OTHER -> CmdGoes(s, [c EXCEPT !.pc = "saving", !.pid = t.project,
                                                   !.was = t], <<>>)

\* updateTask, updateTaskStatus: the paths of the loaded task that the
\* handler has set to another value.  An updateTask with none of status,
\* priority and assignedTo is one that submits a new title.
CmdModified(q) ==
    \/ q.op = "updateTask" /\ q.fields = <<Undef, Undef, Undef>>
    \/ q.fields[1] \notin {Undef, q.was.status}
    \/ q.fields[3] \notin {Undef, q.was.assignedTo}

\* The write of the handler rejects because of what it finds: save() of a
\* modified document that has been deleted meanwhile.
CmdSaveMisses(q) ==
    CASE q.op \in {"updateTask", "updateTaskStatus"} -> CmdModified(q) /\ ~TaskFound(q.tid)
      [] q.op = "reorderTask" -> \E t \in q.pending : ~TaskFound(t)
      [] q.op = "addProjectMember" -> ~ProjectFound(q.pid)
      [] OTHER -> FALSE

\* The tasks after the write of the handler: Task.create, task.save() with
\* the modified paths, task.deleteOne(), the saves of Promise.all.
CmdSavedTasks(q) ==
    CASE q.op = "createTask" ->
            [tasks EXCEPT ![q.tid] =
                [state |-> "live", project |-> q.pid,
                 status |-> DefaultStatus(q.fields[1]),
                 priority |-> DefaultPriority(q.fields[2]),
                 assignedTo |-> DefaultAssignee(q.fields[3], q.actor),
                 createdBy |-> q.actor, position |-> CreatedPosition(q.pid)]]
      [] q.op \in {"updateTask", "updateTaskStatus"} ->
            IF ~TaskFound(q.tid) THEN tasks
            ELSE [tasks EXCEPT ![q.tid] =
                    [@ EXCEPT !.status = IF q.fields[1] \notin {Undef, q.was.status}
                                         THEN q.fields[1] ELSE @,
                              !.assignedTo = IF q.fields[3] \notin {Undef, q.was.assignedTo}
                                             THEN q.fields[3] ELSE @]]
      [] q.op = "deleteTask" ->
            IF TaskFound(q.tid) THEN [tasks EXCEPT ![q.tid] = DeletedTask] ELSE tasks
      [] q.op = "reorderTask" ->
            [t \in TaskIds |->
                IF t \in q.pending /\ TaskFound(t)
                THEN [tasks[t] EXCEPT !.position = NewPosition(q.order, t)] ELSE tasks[t]]
      [] OTHER -> tasks

\* The projects after project.save() of addProjectMember.
CmdSavedProjects(q) ==
    IF q.op = "addProjectMember" /\ ProjectFound(q.pid)
    THEN [projects EXCEPT ![q.pid] =
            IF q.write = "push"
            THEN [@ EXCEPT !.members = Append(@, q.user),
                           !.memberRoles[q.user] = MemberRole(Undef)]
            ELSE [@ EXCEPT !.memberRoles[q.user] = MemberRole(Undef)]]
    ELSE projects

\* A slip of the handlers: the event is not held back for the entry.
AfterSave_Publishing(q) == "publishing"

\* The await that follows the write of a task handler: TaskLog.create, which
\* updateTask skips when none of status, priority and assignedTo came.
AfterSave(q) ==
    IF q.op = "updateTask" /\ q.fields = <<Undef, Undef, Undef>>
    THEN "publishing" ELSE "logging"

\* The write of the handler lands, or rejects for what it finds.
\* addProjectMember goes on to emitProjectUpdated and createNotification.
CmdSave(s) ==
    LET q == reqs[s]
        done == [q EXCEPT !.saved = TRUE]
    IN  /\ q.pc = "saving"
        /\ tasks' = CmdSavedTasks(q)
        /\ UNCHANGED <<logs, logged, rooms>>
        /\ IF CmdSaveMisses(q)
           THEN CmdEnds(s, q, <<>>, 500) /\ projects' = projects
           ELSE /\ projects' = CmdSavedProjects(q)
                /\ CASE q.op = "addProjectMember" ->
                          CmdGoes(s, [done EXCEPT !.pc = "notifying", !.published = TRUE,
                                         !.note = <<Notification(q.user, "project_invitation",
                                                                 q.pid, NoId)>>],
                                  <<Event("project:updated", q.pid, NoId)>>)
                     [] OTHER -> CmdGoes(s, [done EXCEPT !.pc = AfterSave(q)], <<>>)

\* The write of the handler rejects for a reason of the database; the catch
\* block answers.
CmdSaveRejects(s) ==
    /\ reqs[s].pc = "saving"
    /\ CmdEnds(s, reqs[s], <<>>, 500)
    /\ UNCHANGED <<projects, tasks, logs, logged, rooms>>

\* The entry that the handler appends with TaskLog.create.
CmdEntry(q) ==
    CASE q.op = "createTask" ->
            [LogEntry(q.tid, q.actor, "Task created") EXCEPT
                !.newStatus = DefaultStatus(q.fields[1]),
                !.newPriority = DefaultPriority(q.fields[2]),
                !.newAssignee = DefaultAssignee(q.fields[3], q.actor)]
      [] q.op = "updateTask" ->
            UpdateLogData(q.was, q.tid, q.actor, q.fields[1], q.fields[2], q.fields[3])
      [] q.op = "updateTaskStatus" ->
            [LogEntry(q.tid, q.actor, "Status changed") EXCEPT
                !.previousStatus = q.was.status, !.newStatus = q.fields[1]]
      [] OTHER -> LogEntry(q.tid, q.actor, "Task reordered")

\* The await after the write lands: TaskLog.create of the entry, or
\* TaskLog.deleteMany of deleteTask.  reorderTask and deleteTask go on to
\* their event and their response.
CmdLog(s) ==
    LET q == reqs[s]
        kept(l) == l.task # q.tid
    IN  /\ q.pc = "logging"
        /\ UNCHANGED <<projects, tasks, rooms>>
        /\ IF q.op = "deleteTask"
           THEN /\ logs' = RemainingLogs(q.tid)
                /\ logged' = SelectSeq(logged, kept)
                /\ CmdEnds(s, [q EXCEPT !.published = TRUE],
                           <<Event("task:deleted", q.pid, q.tid)>>, 200)
           ELSE /\ logs' = logs \cup {CmdEntry(q)}
                /\ logged' = Append(logged, CmdEntry(q))
                /\ IF q.op = "reorderTask"
                   THEN CmdEnds(s, [q EXCEPT !.audited = TRUE, !.published = TRUE],
                                <<Event("tasksReordered", q.pid, NoId)>>, 200)
                   ELSE CmdGoes(s, [q EXCEPT !.audited = TRUE, !.pc = "publishing"], <<>>)

\* A slip of the catch block: the task is put back as it was loaded.
CaughtTasks_RolledBack(q) ==
    IF q.op \in {"updateTask", "updateTaskStatus"} /\ TaskFound(q.tid)
    THEN [tasks EXCEPT ![q.tid] = q.was] ELSE tasks

\* The tasks after the catch block of a handler: it answers and undoes
\* nothing.
CaughtTasks(q) == tasks

\* TaskLog.create or TaskLog.deleteMany rejects; the catch block answers.
CmdLogRejects(s) ==
    /\ reqs[s].pc = "logging"
    /\ CmdEnds(s, reqs[s], <<>>, 500)
    /\ tasks' = CaughtTasks(reqs[s])
    /\ UNCHANGED <<projects, logs, logged, rooms>>

\* The notifications that the handler goes on to create after its event.
CmdNotices(q) ==
    CASE q.op = "createTask" ->
            IF q.fields[3] # Undef /\ q.fields[3] # q.actor
            THEN <<Notification(q.fields[3], "task_assignment", q.pid, q.tid)>> ELSE <<>>
      [] q.op = "updateTask" -> AssignmentNotices(q.was, q.tid, q.actor, q.fields[3])
      [] OTHER ->
            IF q.was.assignedTo # q.actor
            THEN <<Notification(q.was.assignedTo, "task_update", q.pid, q.tid)>> ELSE <<>>

\* createTask, updateTask, updateTaskStatus after the entry: the task is
\* read back and, when it is found, the event goes out and the handler
\* awaits createNotification or answers.  A task not found is answered as
\* it is.
CmdPublish(s) ==
    LET q == reqs[s]
        type == IF q.op = "createTask" THEN "task:created" ELSE "task:updated"
        sent == [q EXCEPT !.published = TRUE]
    IN  /\ q.pc = "publishing"
        /\ UNCHANGED <<projects, tasks, logs, logged, rooms>>
        /\ IF ~TaskFound(q.tid) THEN CmdEnds(s, q, <<>>, SuccessCode(q.op))
           ELSE IF CmdNotices(q) = <<>>
           THEN CmdEnds(s, sent, <<Event(type, q.pid, q.tid)>>, SuccessCode(q.op))
           ELSE CmdGoes(s, [sent EXCEPT !.pc = "notifying", !.note = CmdNotices(q)],
                        <<Event(type, q.pid, q.tid)>>)

\* A slip of createNotification: the rejection reaches the handler.
NoticeAnswer_Surfaced(q) == IF q.notice = "failed" THEN 500 ELSE SuccessCode(q.op)

\* The status that a task handler answers after createNotification, which
\* catches what Notification.create throws and so always resolves.
NoticeAnswer(q) == SuccessCode(q.op)

\* What follows createNotification: the response of the task handlers, the
\* last read of addProjectMember.
CmdNotified(s, q) ==
    IF q.op = "addProjectMember"
    THEN /\ reqs' = [reqs EXCEPT ![s] = [q EXCEPT !.pc = "reading"]]
         /\ resp' = resp
    ELSE /\ reqs' = [reqs EXCEPT ![s] = [q EXCEPT !.pc = "done", !.status = NoticeAnswer(q)]]
         /\ resp' = CmdResp(q, NoticeAnswer(q))

\* createNotification: Notification.create lands.
CmdNotify(s) ==
    LET q == reqs[s]
    IN  /\ q.pc = "notifying"
        /\ notified' = q.note
        /\ emitted' = <<>>
        /\ CmdNotified(s, [q EXCEPT !.notice = "written"])
        /\ UNCHANGED <<projects, tasks, logs, logged, rooms>>

\* createNotification: Notification.create rejects and the catch block of
\* createNotification logs the error.
CmdNotifyFails(s) ==
    LET q == reqs[s]
    IN  /\ q.pc = "notifying"
        /\ notified' = <<>>
        /\ emitted' = <<>>
        /\ CmdNotified(s, [q EXCEPT !.notice = "failed"])
        /\ UNCHANGED <<projects, tasks, logs, logged, rooms>>

\* addProjectMember: Project.findById and res.status(200).json
CmdRead(s) ==
    /\ reqs[s].pc = "reading"
    /\ CmdEnds(s, reqs[s], <<>>, 200)
    /\ UNCHANGED <<projects, tasks, logs, logged, rooms>>

-----------------------------------------------------------------------------
(* The membership specification: the project handlers on one project. *)

\* The member lists an updateProject request submits.
MemberLists == {<<>>, <<"u2">>, <<"u2", "u2">>}

EmptyDb ==
    /\ projects = [p \in ProjectIds |-> NoProject]
    /\ tasks = [t \in TaskIds |-> NoTask]
    /\ logs = {}
    /\ resp = NoResp
    /\ emitted = <<>>
    /\ notified = <<>>
    /\ logged = <<>>
    /\ reqs = <<>>
    /\ rooms = [u \in Users |-> {}]

MembersNext ==
    \/ \E a \in Users : CreateProject(a, "p1")
    \/ \E a \in Users, m \in {NotGiven} \cup {Given(l) : l \in MemberLists} :
          UpdateProject(a, "p1", m)
    \/ \E a \in Users : DeleteProject(a, "p1")
    \/ \E a \in Users, u \in Users, role \in RoleInputs : AddProjectMember(a, "p1", u, role)
    \/ \E a \in Users, u \in Users : RemoveProjectMember(a, "p1", u)

SpecMembers == EmptyDb /\ [][MembersNext]_vars

-----------------------------------------------------------------------------
(* The ordering specification: the task handlers on two projects whose     *)
(* membership stays as it is (u1 owns both and has added u2 as a member).  *)

SharedProject ==
    [state |-> "live", owner |-> "u1", members |-> <<"u1", "u2">>,
     memberRoles |-> [u \in Users |->
        IF u = "u1" THEN ROLE_OWNER ELSE IF u = "u2" THEN ROLE_MEMBER ELSE Undef]]

OrderInit ==
    /\ projects = [p \in ProjectIds |-> SharedProject]
    /\ tasks = [t \in TaskIds |-> NoTask]
    /\ logs = {}
    /\ resp = NoResp
    /\ emitted = <<>>
    /\ notified = <<>>
    /\ logged = <<>>
    /\ reqs = <<>>
    /\ rooms = [u \in Users |-> {}]

\* The _id of the next document: ids are handed out in order.
FreshTaskIds ==
    {t \in TaskIds : tasks[t].state = "none" /\ \A s \in 1..(t-1) : tasks[s].state # "none"}

\* The newPosition values of the requests: below, inside and above the list.
PositionInputs == {Given(n) : n \in (0-1)..MaxTasks}

\* The project of each new task: the first goes to either project, the later
\* ones to p1.
OrderProjects(tid) == IF tid = 1 THEN ProjectIds ELSE {"p1"}

OrderNext ==
    \/ \E tid \in FreshTaskIds : \E pid \in OrderProjects(tid) :
          CreateTask("u1", pid, tid, Undef, Undef, Undef)
    \/ \E tid \in TaskIds : UpdateTask("u1", tid, Undef, Undef, Undef)
    \/ \E tid \in TaskIds : UpdateTaskStatus("u1", tid, "pending")
    \/ \E pid \in ProjectIds, tid \in TaskIds, np \in PositionInputs :
          ReorderTask("u1", pid, tid, np)
    \/ \E tid \in TaskIds : DeleteTask("u1", tid)

SpecOrder == OrderInit /\ [][OrderNext]_vars

-----------------------------------------------------------------------------
(* The interleaved specification: two reorderTask requests of u1 on project *)
(* p1 run await by await, next to createTask and deleteTask requests.       *)

\* The tasks that are there at the start: u1 has created them one after the
\* other and moved each new one to the end.
FirstTasks == 1..(MaxTasks - 1)

CreatedEntry(t) ==
    [LogEntry(t, "u1", "Task created") EXCEPT
        !.newStatus = "pending", !.newPriority = "medium", !.newAssignee = "u1"]

ConcInit ==
    /\ projects = [p \in ProjectIds |-> SharedProject]
    /\ tasks = [t \in TaskIds |->
          IF t \in FirstTasks
          THEN [state |-> "live", project |-> "p1", status |-> "pending",
                priority |-> "medium", assignedTo |-> "u1", createdBy |-> "u1",
                position |-> t - 1]
          ELSE NoTask]
    /\ logs = {CreatedEntry(t) : t \in FirstTasks}
              \cup {LogEntry(t, "u1", "Task reordered") : t \in FirstTasks \ {1}}
    /\ resp = NoResp
    /\ emitted = <<>>
    /\ notified = <<>>
    /\ logged = <<>>
    /\ reqs = [s \in Slots |-> IdleReq]
    /\ rooms = [u \in Users |-> {}]

ConcNext ==
    \/ \E s \in Slots, tid \in FirstTasks, np \in 0..(MaxTasks - 2) :
          ReorderStart(s, "u1", "p1", tid, np)
    \/ \E s \in Slots : ReorderLoad(s)
    \/ \E s \in Slots, t \in TaskIds : ReorderWrite(s, t)
    \/ \E s \in Slots : ReorderFinish(s)
    \/ \E tid \in FreshTaskIds : CreateTask("u1", "p1", tid, Undef, Undef, Undef)
    \/ DeleteTask("u1", 1)

SpecConc == ConcInit /\ [][ConcNext]_vars

-----------------------------------------------------------------------------
(* The joining specification: two addProjectMember requests on project p1,  *)
(* which u1 has just created, run await by await.                           *)

JoinInit ==
    /\ projects = [p \in ProjectIds |->
          IF p = "p1"
          THEN [state |-> "live", owner |-> "u1", members |-> <<"u1">>,
                memberRoles |-> [u \in Users |-> IF u = "u1" THEN ROLE_OWNER ELSE Undef]]
          ELSE NoProject]
    /\ tasks = [t \in TaskIds |-> NoTask]
    /\ logs = {}
    /\ resp = [NoResp EXCEPT !.op = "createProject", !.actor = "u1", !.pid = "p1",
                             !.status = 201]
    /\ emitted = <<>>
    /\ notified = <<>>
    /\ logged = <<>>
    /\ reqs = [s \in Slots |-> IdleAdd]
    /\ rooms = [u \in Users |-> {}]

JoinNext ==
    \/ \E s \in Slots, a \in {"u1", "u2"}, u \in {"u2", "u3"}, role \in {Undef, ROLE_ADMIN} :
          AddMemberLoad(s, a, "p1", u, role)
    \/ \E s \in Slots : AddMemberSave(s)

SpecJoin == JoinInit /\ [][JoinNext]_vars

-----------------------------------------------------------------------------
(* The fan-out specification: sockets join and leave the room of project    *)
(* p1, which u1 has just created, while u1 works on its tasks.              *)

RoomsInit ==
    /\ projects = [p \in ProjectIds |->
          IF p = "p1"
          THEN [state |-> "live", owner |-> "u1", members |-> <<"u1">>,
                memberRoles |-> [u \in Users |-> IF u = "u1" THEN ROLE_OWNER ELSE Undef]]
          ELSE NoProject]
    /\ tasks = [t \in TaskIds |-> NoTask]
    /\ logs = {}
    /\ resp = [NoResp EXCEPT !.op = "createProject", !.actor = "u1", !.pid = "p1",
                             !.status = 201]
    /\ emitted = <<>>
    /\ notified = <<>>
    /\ logged = <<>>
    /\ reqs = <<>>
    /\ rooms = [u \in Users |-> {}]

RoomsNext ==
    \/ \E u \in Users : JoinProject(u, "p1")
    \/ \E u \in Users : LeaveProject(u, "p1")
    \/ \E tid \in FreshTaskIds : CreateTask("u1", "p1", tid, Undef, Undef, Undef)
    \/ \E tid \in TaskIds : UpdateTaskStatus("u1", tid, "completed")
    \/ \E tid \in TaskIds : DeleteTask("u1", tid)
    \/ \E as \in {"u1", "u3"} : UpdateTask("u1", 1, Undef, Undef, as)

SpecRooms == RoomsInit /\ [][RoomsNext]_vars

-----------------------------------------------------------------------------
(* The await-by-await specification: project p1 of u1 with member u2 and    *)
(* two tasks, the first assigned to u2, and one request in each slot.       *)

StepsEntry(t) ==
    [LogEntry(t, "u1", "Task created") EXCEPT
        !.newStatus = "pending", !.newPriority = "medium",
        !.newAssignee = IF t = 1 THEN "u2" ELSE "u1"]

StepsInit ==
    /\ projects = [p \in ProjectIds |-> IF p = "p1" THEN SharedProject ELSE NoProject]
    /\ tasks = [t \in TaskIds |->
          IF t \in {1, 2}
          THEN [state |-> "live", project |-> "p1", status |-> "pending",
                priority |-> "medium", assignedTo |-> IF t = 1 THEN "u2" ELSE "u1",
                createdBy |-> "u1", position |-> t - 1]
          ELSE NoTask]
    /\ logs = {StepsEntry(1), StepsEntry(2)}
    /\ resp = NoResp
    /\ emitted = <<>>
    /\ notified = <<>>
    /\ logged = <<StepsEntry(1), StepsEntry(2)>>
    /\ reqs = [s \in Slots |-> IdleCmd]
    /\ rooms = [u \in Users |-> {}]

\* The requests of each slot.
StepsCommands(s) ==
    IF s = "r1"
    THEN {Command("updateTask", "u1", Undef, 1, <<"completed", Undef, Undef>>, Undef, 0),
          Command("updateTask", "u1", Undef, 1, <<Undef, Undef, "u3">>, Undef, 0),
          Command("updateTask", "u1", Undef, 1, <<Undef, Undef, Undef>>, Undef, 0),
          Command("createTask", "u1", "p1", 3, <<Undef, Undef, "u2">>, Undef, 0),
          Command("reorderTask", "u1", "p1", 1, <<Undef, Undef, Undef>>, Undef, 1),
          Command("addProjectMember", "u1", "p1", NoId, <<Undef, Undef, Undef>>, "u3", 0),
          Command("updateTaskStatus", "u1", Undef, 1, <<"in-progress", Undef, Undef>>, Undef, 0)}
    ELSE {Command("updateTaskStatus", "u1", Undef, 1, <<"in-progress", Undef, Undef>>, Undef, 0),
          Command("updateTaskStatus", "u2", Undef, 1, <<"completed", Undef, Undef>>, Undef, 0),
          Command("deleteTask", "u1", Undef, 1, <<Undef, Undef, Undef>>, Undef, 0)}

StepsNext ==
    \E s \in Slots :
       \/ \E c \in StepsCommands(s) : CmdStart(s, c)
       \/ CmdSave(s)
       \/ CmdSaveRejects(s)
       \/ CmdLog(s)
       \/ CmdLogRejects(s)
       \/ CmdPublish(s)
       \/ CmdNotify(s)
       \/ CmdNotifyFails(s)
       \/ CmdRead(s)

SpecSteps == StepsInit /\ [][StepsNext]_vars

-----------------------------------------------------------------------------
(* The whole API on one project and one task: membership changes and the   *)
(* task handlers follow one another, one request at a time.                 *)

\* The users who send task requests: the one who creates the project and
\* the one who is added to and removed from it.
TaskActors == {"u1", "u2"}

Next ==
    \/ CreateProject("u1", "p1")
    \/ \E a \in TaskActors : UpdateProject(a, "p1", Given(<<>>))
    \/ \E a \in TaskActors : DeleteProject(a, "p1")
    \/ \E a \in Users, role \in {Undef, "viewer"} :
          AddProjectMember(a, "p1", "u2", role)
    \/ \E a \in Users : RemoveProjectMember(a, "p1", "u2")
    \/ \E a \in TaskActors, as \in {Undef, "u2"} : CreateTask(a, "p1", 1, Undef, Undef, as)
    \/ \E a \in TaskActors, st \in {Undef, "completed"} : UpdateTask(a, 1, st, Undef, Undef)
    \/ \E a \in TaskActors : GetTaskLogs(a, 1)
    \/ \E a \in TaskActors : GetAllTaskLogs(a)
    \/ \E a \in TaskActors : UpdateTaskStatus(a, 1, "completed")
    \/ \E a \in TaskActors : ReorderTask(a, "p1", 1, Given(0))
    \/ \E a \in TaskActors : DeleteTask(a, 1)
    \/ \E a \in TaskActors : CreateTaskTitled(a, "p1", 1, Undef, Undef, Undef, Undef)
    \/ \E a \in TaskActors : PutTaskOrder(a, 1, Given(0))

Spec == EmptyDb /\ [][Next]_vars

-----------------------------------------------------------------------------
(* Membership claims *)

\* The handler whose response resp' holds ran in this step on project pid,
\* which existed before it.
Ran(op, pid) == resp'.op = op /\ resp'.pid = pid /\ projects[pid].state = "live"

\* One step of C5, on the project as it was before the handler ran.
C5_AddMemberStep ==
    \A pid \in ProjectIds :
       (/\ Ran("addProjectMember", pid)
        /\ projects[pid].owner # resp'.actor
        /\ UserRoleOf(resp'.actor) # ADMIN
        /\ projects[pid].memberRoles[resp'.actor] # ROLE_ADMIN)
       => resp'.status = 403

\* C5: addProjectMember answers 403 (Forbidden) to every actor who is not the
\* project owner, not a system admin and not a project admin, whatever role
\* the request carries.
C5_AddMemberOnlyByOwnerOrAdmin == [][C5_AddMemberStep]_vars

\* C6: the users with an entry in memberRoles are exactly the members of the
\* project.
C6_RolesExactlyMembers ==
    \A pid \in ProjectIds :
       projects[pid].state = "live" => RoleKeys(projects[pid]) = Range(projects[pid].members)

\* C7: the entry of the owner in memberRoles is always owner.
C7_OwnerRoleIsOwner ==
    \A pid \in ProjectIds :
       projects[pid].state = "live" =>
          projects[pid].memberRoles[projects[pid].owner] = ROLE_OWNER

\* One step of C8.
C8_OwnerStep ==
    /\ \A pid \in ProjectIds :
          projects'[pid].state = "live" =>
             projects'[pid].owner \in Range(projects'[pid].members)
    /\ \A pid \in ProjectIds :
          (Ran("removeProjectMember", pid) /\ resp'.user = projects[pid].owner)
          => resp'.status \in {400, 403} /\ projects' = projects
    /\ \A pid \in ProjectIds :
          (Ran("updateProject", pid) /\ resp'.status = 200 /\ resp'.members # NotGiven)
          => /\ projects'[pid].owner = projects[pid].owner
             /\ Range(projects'[pid].members) =
                   Range(resp'.members[1]) \cup {projects[pid].owner}

\* C8: after every handler the owner of a project is one of its members; a
\* removeProjectMember that names the owner is rejected and leaves the project
\* as it was; an updateProject whose list omits the owner stores the owner.
C8_OwnerAlwaysMember == [][C8_OwnerStep]_vars

\* C8 witness: an updateProject whose list omitted the owner was accepted, and
\* the owner is a member.
C8_Witness ==
    \E pid \in ProjectIds :
       /\ resp.op = "updateProject" /\ resp.pid = pid /\ resp.status = 200
       /\ resp.members # NotGiven
       /\ projects[pid].state = "live"
       /\ projects[pid].owner \notin Range(resp.members[1])
       /\ projects[pid].owner \in Range(projects[pid].members)

-----------------------------------------------------------------------------
(* Authorization and audit claims *)

MutatingTaskOps == {"updateTask", "updateTaskStatus", "deleteTask", "reorderTask"}
MutatingProjectOps == {"createTask", "addProjectMember", "removeProjectMember"}

\* The request answered by resp' was a well-formed mutating command on
\* project pid: the project existed, and so did the task of a task command.
MutatedProject(pid) ==
    /\ ProjectFound(pid)
    /\ \/ resp'.op \in MutatingProjectOps /\ resp'.pid = pid
       \/ /\ resp'.op \in MutatingTaskOps
          /\ TaskFound(resp'.tid) /\ tasks[resp'.tid].project = pid
          /\ resp'.op = "reorderTask" => resp'.pid = pid /\ resp'.newPosition # NotGiven
          /\ resp'.op = "updateTaskStatus" => resp'.fields[1] \in Statuses

\* One step of C4.
C4_OutsiderStep ==
    \A pid \in ProjectIds :
       (/\ MutatedProject(pid)
        /\ UserRoleOf(resp'.actor) # ADMIN
        /\ projects[pid].owner # resp'.actor
        /\ resp'.actor \notin Range(projects[pid].members))
       => resp'.status = 403

\* C4: every mutating command on a project sent by an actor who is not a
\* system admin, not the owner and not a current member is answered 403.
C4_OutsidersForbidden == [][C4_OutsiderStep]_vars

\* The previous/new pair of one field in the entry: populated from the task
\* as it was when the field was submitted, absent when it was not.
PairFor(submitted, was, previous, new) ==
    IF submitted # Undef THEN previous = was /\ new = submitted
    ELSE previous = Undef /\ new = Undef

\* One step of C9.
C9_AuditStep ==
    (/\ resp'.op \in {"updateTask", "updateTaskStatus"}
     /\ resp'.status = 200
     /\ \E i \in 1..3 : resp'.fields[i] # Undef)
    => /\ Len(logged') = 1
       /\ logged'[1] \in logs'
       /\ LET e == logged'[1]
              t == tasks[resp'.tid]
              f == resp'.fields
          IN  /\ PairFor(f[1], t.status, e.previousStatus, e.newStatus)
              /\ PairFor(f[2], t.priority, e.previousPriority, e.newPriority)
              /\ PairFor(f[3], t.assignedTo, e.previousAssignee, e.newAssignee)

\* C9: an accepted updateTask or updateTaskStatus that submits status,
\* priority or assignee writes exactly one log entry, whose previous/new pair
\* is populated for each submitted field (changed or not) and absent for the
\* others.
C9_AuditComplete == [][C9_AuditStep]_vars

-----------------------------------------------------------------------------
(* Ordering claims *)

\* The positions of the live tasks of project pid are 0..N-1, each once.
Dense(pid) ==
    LET S == ProjectTasks(pid)
    IN  /\ {tasks[t].position : t \in S} = 0..(Cardinality(S) - 1)
        /\ \A a, b \in S : a # b => tasks[a].position # tasks[b].position

\* C1: in every state the positions of the live tasks of each project are
\* exactly 0..N-1, without duplicates or gaps.
C1_DenseOrdering == \A pid \in ProjectIds : Dense(pid)

\* What one reorderTask of task tid of project pid does, for C10.
C10_ReorderStepOf(pid, tid) ==
    LET S == ProjectTasks(pid)
        N == Cardinality(S)
        target == resp'.newPosition[1]
    IN  /\ resp'.status = 200
        /\ {tasks'[t].position : t \in S} = 0..(N - 1)
        /\ tasks'[tid].position = Min(Max(target, 0), N - 1)
        /\ \A a, b \in S \ {tid} :
              tasks[a].position < tasks[b].position
              => tasks'[a].position < tasks'[b].position
        /\ \A t \in TaskIds \ S : tasks'[t] = tasks[t]
        /\ \A t \in S : [tasks'[t] EXCEPT !.position = tasks[t].position] = tasks[t]
        /\ Len(resp'.tasks) = N
        /\ \A t \in S : resp'.tasks[tasks'[t].position + 1] = t
C10_ReorderStep ==
    \A pid \in ProjectIds, tid \in TaskIds :
       (/\ resp'.op = "reorderTask" /\ resp'.pid = pid /\ resp'.tid = tid
        /\ resp'.newPosition # NotGiven
        /\ ProjectFound(pid) /\ TaskFound(tid) /\ tasks[tid].project = pid
        /\ IsProjectMember(projects[pid], resp'.actor))
       => C10_ReorderStepOf(pid, tid)

\* C10: a reorderTask of an existing task by a member, with a numeric target,
\* is answered 200 whatever the target; it leaves the N tasks of the project
\* at positions 0..N-1, the moved task at min(max(target, 0), N-1), the other
\* tasks in their earlier ascending-position order, changes nothing but
\* positions of that project, and returns the tasks in the new order.
C10_ReorderInIsolation == [][C10_ReorderStep]_vars

\* C10 witness: a reorder of a project of three tasks with a target above the
\* last position was answered 200 and the moved task is last.
C10_Witness ==
    /\ resp.op = "reorderTask" /\ resp.status = 200
    /\ Cardinality(ProjectTasks(resp.pid)) = 3
    /\ resp.newPosition[1] > 2
    /\ tasks[resp.tid].position = 2
    /\ Dense(resp.pid)

-----------------------------------------------------------------------------
(* Concurrency claims *)

\* The order of the tasks at the start of the interleaved specification.
FirstOrder == [i \in 1..(MaxTasks - 1) |-> i]

\* Nothing but the two reorders has touched the tasks of p1.
OnlyReorders ==
    /\ \A t \in FirstTasks : tasks[t].state = "live"
    /\ \A t \in TaskIds \ FirstTasks : tasks[t].state = "none"

\* The order after reorder a and then reorder b, each run alone.
SerialOrder(a, b) == Reordered(Reordered(FirstOrder, a.tid, a.target), b.tid, b.target)

\* The stored positions are those of this order.
StoredAs(order) == \A t \in Range(order) : tasks[t].position = NewPosition(order, t)

\* C2: when two reorderTask requests on one project with different targets
\* have both been answered 200, whatever the interleaving of their loads and
\* saves, the stored positions are 0..N-1 without duplicates and are those of
\* the two moves applied one after the other, in one order or the other.
C2_ConcurrentReorders ==
    (/\ OnlyReorders
     /\ \A s \in Slots : reqs[s].pc = "done" /\ reqs[s].status = 200
     /\ reqs["r1"].pid = reqs["r2"].pid
     /\ reqs["r1"].target # reqs["r2"].target)
    => /\ Dense("p1")
       /\ \/ StoredAs(SerialOrder(reqs["r1"], reqs["r2"]))
          \/ StoredAs(SerialOrder(reqs["r2"], reqs["r1"]))

\* Slot s has loaded the tasks and has saves that have not reached the
\* database.
InReorderWindow(s) == reqs[s].pc = "writing" /\ reqs[s].pending # {}

\* In this step another reorderTask, a createTask or a deleteTask on the
\* project of slot s took a step.
OtherCommandStep(s) ==
    /\ reqs'[s] = reqs[s]
    /\ \/ \E o \in Slots \ {s} : reqs'[o] # reqs[o] /\ reqs'[o].pid = reqs[s].pid
       \/ /\ resp'.op \in {"createTask", "deleteTask"}
          /\ resp'.pid = reqs[s].pid
          /\ tasks' # tasks

\* One step of C3.
C3_WindowStep == \A s \in Slots : InReorderWindow(s) => ~OtherCommandStep(s)

\* C3: between the load of a reorderTask and its last save, no other
\* reorderTask, createTask or deleteTask on the same project takes a step.
C3_ReorderExclusive == [][C3_WindowStep]_vars

-----------------------------------------------------------------------------
(* Scenario and reorder claims *)

\* The items A, B and C of the scenario, in the order of their creation.
ScenarioItems == <<1, 2, 3>>

\* u1 has created A, B and C in p1 and nothing else has been created,
\* reordered or deleted.
CreatedOnly ==
    /\ \A i \in 1..3 : /\ tasks[ScenarioItems[i]].state = "live"
                       /\ tasks[ScenarioItems[i]].project = "p1"
    /\ \A t \in TaskIds \ Range(ScenarioItems) : tasks[t].state = "none"
    /\ \A l \in logs : l.message # "Task reordered"

\* One step of C11.
C11_ScenarioStep ==
    /\ CreatedOnly' => \A i \in 1..3 : tasks'[ScenarioItems[i]].position = i - 1
    /\ (/\ CreatedOnly
        /\ resp'.op = "reorderTask" /\ resp'.pid = "p1"
        /\ resp'.tid = ScenarioItems[3] /\ resp'.newPosition = Given(0))
       => /\ resp'.status = 200
          /\ resp'.tasks = <<ScenarioItems[3], ScenarioItems[1], ScenarioItems[2]>>
          /\ \A i \in 1..3 : tasks'[resp'.tasks[i]].position = i - 1
          /\ Len(logged') = 1
          /\ logged'[1].task = ScenarioItems[3]

\* C11: after u1 has created A, B and C in p1 their positions are 0, 1, 2;
\* reorderTask(p1, C, 0) then returns the order [C, A, B] with positions
\* 0, 1, 2 and writes exactly one log entry, on C.
C11_ScenarioA == [][C11_ScenarioStep]_vars

\* The reorderTask answered by resp' asked for the position the task had.
ReorderToCurrent ==
    /\ resp'.op = "reorderTask" /\ resp'.status = 200
    /\ resp'.newPosition = Given(tasks[resp'.tid].position)

\* One step of C12.
C12_IdempotentStep ==
    ReorderToCurrent
    => /\ tasks' = tasks
       /\ Len(logged') = 1
       /\ logged'[1].task = resp'.tid
       /\ logged'[1] \in logs'
       /\ emitted' = <<Event("tasksReordered", resp'.pid, NoId)>>

\* C12: a reorderTask to the position the task already has leaves every
\* task's position, and so the order, as it was, and still writes one log
\* entry and emits one tasksReordered event.
C12_ReorderIdempotent == [][C12_IdempotentStep]_vars

-----------------------------------------------------------------------------
(* Refusal, role and deletion claims *)

\* One step of C13.
C13_DeniedStep ==
    resp'.status = 403
    => /\ projects' = projects
       /\ tasks' = tasks
       /\ logs' = logs
       /\ logged' = <<>>
       /\ notified' = <<>>
       /\ emitted' = <<>>

\* C13: a handler that answers 403 leaves the projects with their members and
\* roles, the tasks and the log entries as they were, creates no notification
\* and emits no event.
C13_ForbiddenChangesNothing == [][C13_DeniedStep]_vars

\* C13 witness: u2, not a member, was refused an updateTask on a task that is
\* there with its log entries.
C13_Witness ==
    /\ resp.op = "updateTask" /\ resp.status = 403
    /\ TaskFound(resp.tid)
    /\ resp.actor \notin Range(projects[tasks[resp.tid].project].members)
    /\ TaskLogsOf(resp.tid) # {}
    /\ emitted = <<>>
    /\ notified = <<>>

\* One step of C14.
C14_AdminRoleStep ==
    \A pid \in ProjectIds :
       (/\ Ran("addProjectMember", pid)
        /\ MemberRole(resp'.role) \in {ROLE_ADMIN, ROLE_OWNER}
        /\ projects[pid].owner # resp'.actor
        /\ UserRoleOf(resp'.actor) # ADMIN)
       => resp'.status = 403 /\ projects' = projects

\* C14: an addProjectMember that asks for role admin or owner, for a new
\* member or for one who is there, is answered 403 to every actor who is
\* neither the project owner nor a system admin, a project admin included,
\* and leaves members and memberRoles as they were.
C14_AdminRoleOnlyByOwner == [][C14_AdminRoleStep]_vars

\* C14 witness: a project admin who is not the owner asked for role admin and
\* was refused.
C14_Witness ==
    \E pid \in ProjectIds :
       /\ resp.op = "addProjectMember" /\ resp.pid = pid /\ resp.status = 403
       /\ resp.role = ROLE_ADMIN
       /\ projects[pid].state = "live"
       /\ projects[pid].owner # resp.actor
       /\ UserRoleOf(resp.actor) # ADMIN
       /\ resp.actor \in Range(projects[pid].members)
       /\ projects[pid].memberRoles[resp.actor] = ROLE_ADMIN

\* One step of C15.
C15_DeleteStep ==
    \A tid \in TaskIds :
       (/\ resp'.op = "deleteTask" /\ resp'.tid = tid
        /\ TaskFound(tid) /\ ProjectFound(tasks[tid].project)
        /\ projects[tasks[tid].project].owner # resp'.actor
        /\ tasks[tid].createdBy # resp'.actor
        /\ UserRoleOf(resp'.actor) # ADMIN)
       => /\ resp'.status = 403
          /\ tasks' = tasks
          /\ logs' = logs

C16_RepeatStep ==
    \A pid \in ProjectIds :
       (/\ Ran("addProjectMember", pid)
        /\ resp'.user \in Range(projects[pid].members)
        /\ projects[pid].memberRoles[resp'.user] = MemberRole(resp'.role)
        /\ ~AddMemberDenied(projects[pid], resp'.actor, MemberRole(resp'.role)))
       => /\ resp'.status = 409
          /\ projects' = projects
          /\ Cardinality({i \in 1..Len(projects'[pid].members) :
                             projects'[pid].members[i] = resp'.user}) = 1

\* C16: an addProjectMember, by an actor who may add, for a user who is a
\* member with the very role asked for is answered 409 (Conflict) and leaves
\* members and memberRoles as they were, the user appearing once.
C16_RepeatedAddConflicts == [][C16_RepeatStep]_vars

-----------------------------------------------------------------------------
(* Concurrent membership claim *)

\* How often user u is in the members of project pid.
TimesMember(pid, u) ==
    Cardinality({i \in 1..Len(projects[pid].members) : projects[pid].members[i] = u})

\* C17: when the addProjectMember requests in flight have all been answered,
\* whatever the interleaving of their loads and saves, no user is in the
\* members of a project more than once.
C17_MemberOnce ==
    (\A s \in Slots : reqs[s].pc = "done")
    => \A pid \in ProjectIds, u \in Users :
          projects[pid].state = "live" => TimesMember(pid, u) <= 1

-----------------------------------------------------------------------------
(* Audit log claims *)

\* One step of C18.
C18_CreateStep ==
    (resp'.op = "createTask" /\ resp'.status = 201)
    => /\ Len(logged') = 1
       /\ {l \in logs' : l.task = resp'.tid} = {logged'[1]}
       /\ LET e == logged'[1]
              t == tasks'[resp'.tid]
          IN  /\ e.user = resp'.actor
              /\ e.newStatus = t.status /\ e.newStatus \in Statuses
              /\ e.newPriority = t.priority /\ e.newPriority \in Priorities
              /\ e.newAssignee = t.assignedTo /\ e.newAssignee \in Users
              /\ resp'.fields[3] = Undef => e.newAssignee = resp'.actor
              /\ resp'.fields[3] # Undef => e.newAssignee = resp'.fields[3]
              /\ e.previousStatus = Undef
              /\ e.previousPriority = Undef
              /\ e.previousAssignee = Undef

\* C18: a createTask answered 201 writes exactly one log entry for the new
\* task; its newStatus, newPriority and newAssignee are the values the task
\* starts with (the actor as assignee when none was submitted) and its
\* previous fields are absent.
C18_CreationLogged == [][C18_CreateStep]_vars

\* C18 witness: a task was created with no assignee submitted, and its one
\* entry names the actor as the new assignee.
C18_Witness ==
    /\ resp.op = "createTask" /\ resp.status = 201
    /\ resp.fields[3] = Undef
    /\ Len(logged) = 1
    /\ logged[1].task = resp.tid
    /\ logged[1].newAssignee = resp.actor
    /\ tasks[resp.tid].assignedTo = resp.actor
    /\ TaskLogsOf(resp.tid) = {logged[1]}

\* C19: once a task is deleted it is not found, no log entry of it is stored,
\* and no entry of it comes back from getTaskLogs (which answers 404) or from
\* getAllTaskLogs, for any user.
C19_DeletedLogsUnreachable ==
    \A t \in TaskIds :
       tasks[t].state = "deleted"
       => /\ ~TaskFound(t)
          /\ TaskLogsOf(t) = {}
          /\ \A a \in Users : \A l \in AccessibleLogs(a) : l.task # t
          /\ (resp.op = "getTaskLogs" /\ resp.tid = t)
             => resp.status = 404 /\ resp.logs = {}
          /\ resp.op = "getAllTaskLogs" => \A l \in resp.logs : l.task # t

\* C19 witness: after the deletion of a task the owner of its project, which
\* is still there, asked for all logs and got no entry of that task.
C19_Witness ==
    \E t \in TaskIds : \E pid \in ProjectIds :
       /\ tasks[t].state = "deleted"
       /\ ProjectFound(pid)
       /\ resp.op = "getAllTaskLogs" /\ resp.status = 200
       /\ resp.actor = projects[pid].owner
       /\ \A l \in resp.logs : l.task # t

\* One step of C20.
C20_LogStep ==
    \A l \in logs :
       \/ l \in logs'
       \/ /\ resp'.op = "deleteTask" /\ resp'.status = 200 /\ resp'.tid = l.task
          /\ tasks[l.task].state = "live"
          /\ tasks'[l.task].state = "deleted"

\* C20: every log entry stays in the log with all its fields as they were
\* written, through every handler, until the deleteTask of the task it is
\* about removes it.
C20_LogAppendOnly == [][C20_LogStep]_vars

\* C20 witness: a task was deleted, its entries are gone and the entries of
\* another task are in the log.
C20_Witness ==
    /\ resp.op = "deleteTask" /\ resp.status = 200
    /\ tasks[resp.tid].state = "deleted"
    /\ TaskLogsOf(resp.tid) = {}
    /\ \E l \in logs : TaskFound(l.task)

-----------------------------------------------------------------------------
(* Input and route claims *)

\* One step of C26.
C26_InvalidStep ==
    \A pid \in ProjectIds :
       (/\ Ran("createTask", pid)
        /\ resp'.fields[4] = Undef
        /\ IsProjectMember(projects[pid], resp'.actor))
       => /\ resp'.status = 400
          /\ tasks' = tasks
          /\ logs' = logs
          /\ logged' = <<>>
          /\ emitted' = <<>>
          /\ notified' = <<>>

\* C26: a createTask of a project member whose body has no title is answered
\* 400 and creates no task, log entry, event or notification.
C26_InvalidCreateIsBadInput == [][C26_InvalidStep]_vars

\* One step of C27.
C27_RouteStep ==
    (/\ resp'.op = "reorderTask"
     /\ resp'.id # NoId
     /\ resp'.newPosition # NotGiven
     /\ TaskFound(resp'.id)
     /\ ProjectFound(tasks[resp'.id].project)
     /\ IsProjectMember(projects[tasks[resp'.id].project], resp'.actor))
    => /\ resp'.status = 200
       /\ resp'.id \in Range(resp'.tasks)

\* C27: a PUT /tasks/:id/order with a numeric newPosition, sent by a member
\* of the project for a task that exists, is answered 200 with the reordered
\* list, the task in it.
C27_OrderRouteReorders == [][C27_RouteStep]_vars

-----------------------------------------------------------------------------
(* Fan-out claim *)

\* The user may view the project: owner, member or system admin.
MayView(user, pid) ==
    \/ projects[pid].owner = user
    \/ user \in Range(projects[pid].members)
    \/ UserRoleOf(user) = ADMIN

\* C28: an event emitted to the room of a project reaches only the sockets
\* of users who may view the project: its owner, its members and the system
\* admins.
C28_EventsOnlyToViewers ==
    \A u \in Users : \A i \in Delivered(u) :
       ProjectFound(emitted[i].room) => MayView(u, emitted[i].room)

-----------------------------------------------------------------------------
(* Assignment claim *)

C25_AssignStep ==
    \A tid \in TaskIds :
       (/\ resp'.op = "updateTask" /\ resp'.tid = tid /\ resp'.status = 200
        /\ resp'.actor = projects[resp'.pid].owner
        /\ resp'.fields[3] \notin {Undef, resp'.actor, tasks[tid].assignedTo})
       => /\ notified' = <<Notification(resp'.fields[3], "task_assignment", resp'.pid, tid)>>
          /\ emitted' = <<Event("task:updated", tasks[tid].project, tid)>>
          /\ tasks'[tid].assignedTo = resp'.fields[3]

-----------------------------------------------------------------------------
(* Commit, publish and notification claims *)

\* The task handlers that publish an event.
PublishingOps == {"createTask", "updateTask", "updateTaskStatus", "reorderTask", "deleteTask"}

\* The request is to write an audit entry: every task handler but deleteTask,
\* and updateTask when one of status, priority and assignedTo is submitted.
EntryDue(q) ==
    /\ q.op \in PublishingOps \ {"deleteTask"}
    /\ q.op = "updateTask" => q.fields # <<Undef, Undef, Undef>>

\* No request is in flight.
Quiescent == \A s \in Slots : reqs[s].pc \in {"idle", "done"}

\* No request has been answered by a catch block.
NoneRejected == \A s \in Slots : reqs[s].status # 500

\* C21: a task handler (create, update, status update, reorder, delete) has
\* published its event only if its state change has been written and, when
\* it writes an audit entry, that entry too; a request whose write or whose
\* entry did not complete has published nothing.
C21_PublishAfterCommit ==
    \A s \in Slots :
       (reqs[s].op \in PublishingOps /\ reqs[s].published)
       => reqs[s].saved /\ (EntryDue(reqs[s]) => reqs[s].audited)

\* An update has published after its write and its entry, while the other
\* request, whose entry was rejected after its write, has published nothing.
C21_Witness ==
    /\ reqs["r1"].op = "updateTask" /\ reqs["r1"].published /\ reqs["r1"].audited
    /\ reqs["r2"].pc = "done" /\ reqs["r2"].status = 500
    /\ reqs["r2"].saved /\ ~reqs["r2"].audited /\ ~reqs["r2"].published

C22_RejectedStep ==
    \A s \in Slots :
       (/\ reqs[s].pc = "logging" /\ reqs'[s].pc = "done" /\ ~reqs'[s].audited
        /\ reqs[s].op \in {"updateTask", "updateTaskStatus", "reorderTask"})
       => /\ reqs[s].saved
          /\ tasks' = tasks /\ projects' = projects /\ logs' = logs
          /\ resp' = CmdResp(reqs[s], 500)
          /\ emitted' = <<>>

\* C22: when the audit append of an update, a status update or a reorder
\* rejects after the state change was written, the state change stays as
\* written, nothing is published and the answer is 500.
C22_AuditFailureKeepsState == [][C22_RejectedStep]_vars

\* The status update of u1 was written, its entry was rejected, and the task
\* keeps the new status.
C22_Witness ==
    /\ reqs["r2"].op = "updateTaskStatus" /\ reqs["r2"].actor = "u1"
    /\ reqs["r2"].pc = "done" /\ reqs["r2"].status = 500
    /\ reqs["r2"].saved /\ ~reqs["r2"].audited
    /\ reqs["r1"].pc = "idle"
    /\ tasks[1].status = "in-progress"
    /\ resp = CmdResp(reqs["r2"], 500)

C23_FailedStep ==
    \A s \in Slots :
       (reqs[s].pc = "notifying" /\ reqs'[s].notice = "failed")
       => /\ tasks' = tasks /\ projects' = projects /\ logs' = logs /\ logged' = logged
          /\ reqs'[s].saved /\ reqs'[s].published
          /\ IF reqs[s].op = "addProjectMember"
             THEN reqs'[s].pc = "reading" /\ resp' = resp
             ELSE /\ reqs'[s].pc = "done"
                  /\ resp' = CmdResp(reqs[s], SuccessCode(reqs[s].op))

C23_FailedAnswer ==
    \A s \in Slots :
       (reqs[s].notice = "failed" /\ reqs[s].pc = "done")
       => reqs[s].status = SuccessCode(reqs[s].op)

\* C23: a notification write that fails changes nothing of its command: the
\* state change, the audit entry and the published event stay, and the
\* command answers with the success response it answers with otherwise.
C23_NotificationFailureSwallowed == [][C23_FailedStep]_vars /\ []C23_FailedAnswer

\* Both requests have lost their notification and have answered with success.
C23_Witness ==
    /\ reqs["r1"].op = "addProjectMember" /\ reqs["r1"].notice = "failed"
    /\ reqs["r1"].pc = "done" /\ reqs["r1"].status = 200
    /\ "u3" \in Range(projects["p1"].members)
    /\ reqs["r2"].op = "updateTaskStatus" /\ reqs["r2"].notice = "failed"
    /\ reqs["r2"].pc = "done" /\ reqs["r2"].status = 200
    /\ reqs["r2"].audited /\ reqs["r2"].published

\* C24: notification dispatch is fire-and-forget: no handler holds its
\* response back while its notification write is outstanding.
C24_ResponseNeverWaits ==
    \A s \in Slots : reqs[s].pc = "notifying" => reqs[s].status # 0

-----------------------------------------------------------------------------
(* Interleaving claims of the audit log *)

\* The entries written for the task that carry a status, oldest first.
StatusEntries(tid) ==
    LET carries(l) == l.task = tid /\ l.newStatus # Undef
    IN  SelectSeq(logged, carries)

\* C29: in every quiescent state reached without a rejected write, the entry
\* of a live task that was written last among those carrying a status has
\* the current status of the task as its newStatus.
C29_LastEntryIsCurrentStatus ==
    (Quiescent /\ NoneRejected)
    => \A tid \in TaskIds :
          (TaskFound(tid) /\ StatusEntries(tid) # <<>>)
          => StatusEntries(tid)[Len(StatusEntries(tid))].newStatus = tasks[tid].status

\* C30: in every quiescent state reached without a rejected write, every
\* audit entry refers to a live task.
C30_NoOrphanEntries ==
    (Quiescent /\ NoneRejected) => \A l \in logs : TaskFound(l.task)

=============================================================================
